---- MODULE Spec2Model ----
(***************************************************************************)
(* A model of the nrf-radio crate: the typed RADIO handle (Radio<T>), its  *)
(* mode transitions, the busy-wait on the STATE register, and the logical  *)
(* address registers.  The peripheral is modelled next to the driver: the  *)
(* driver writes task registers and reads STATE, the peripheral takes the  *)
(* tasks and moves through its states on its own steps.                    *)
(***************************************************************************)
EXTENDS Integers, Sequences, FiniteSets, TLC

(***************************************************************************)
(* Bounds of the model.                                                    *)
(***************************************************************************)
\* Largest cycle budget a caller passes to a bounded wait.
MaxCycles == 2
\* Stands for u32::MAX, the budget wait_for_state hands to each inner
\* wait_for_state_cycles call (lib.rs:533, lib.rs:492).
U32_MAX == 2
\* Task-register writes the peripheral has not yet acted on.
MaxPending == 1
\* Longest slice passed to enable_rx_addresses / disable_rx_addresses.
MaxAddrs == 2
\* How far past the ends of a valid range the inputs of a conversion go.
Margin == 3

(***************************************************************************)
(* enums.rs: State and its discriminants, the encoding of the STATE        *)
(* register.                                                               *)
(***************************************************************************)
DISABLED == 0
RX_RU == 1
RX_IDLE == 2
RX == 3
RX_DISABLE == 4
TX_RU == 9
TX_IDLE == 10
TX == 11
TX_DISABLE == 12

State ==
    {"Disabled", "RxRu", "RxIdle", "Rx", "RxDisable",
     "TxRu", "TxIdle", "Tx", "TxDisable"}

\* `State as u32`: the discriminant of a state.
StateRepr(s) ==
    CASE s = "Disabled" -> DISABLED
      [] s = "RxRu" -> RX_RU
      [] s = "RxIdle" -> RX_IDLE
      [] s = "Rx" -> RX
      [] s = "RxDisable" -> RX_DISABLE
      [] s = "TxRu" -> TX_RU
      [] s = "TxIdle" -> TX_IDLE
      [] s = "Tx" -> TX
      [] s = "TxDisable" -> TX_DISABLE

\* The STATE field is four bits wide.
StateBits == 0..15

\* A decoder that does not know the transmit ramp-up state.
variant_no_txru(bits) ==
    CASE bits = 0 -> "Disabled"
      [] bits = 1 -> "RxRu"
      [] bits = 2 -> "RxIdle"
      [] bits = 3 -> "Rx"
      [] bits = 4 -> "RxDisable"
      [] bits = 10 -> "TxIdle"
      [] bits = 11 -> "Tx"
      [] bits = 12 -> "TxDisable"
      [] OTHER -> "None"

\* reg_access::get_state: radio.state.read().state().variant(), an Option.
variant(bits) ==
    CASE bits = 0 -> "Disabled"
      [] bits = 1 -> "RxRu"
      [] bits = 2 -> "RxIdle"
      [] bits = 3 -> "Rx"
      [] bits = 4 -> "RxDisable"
      [] bits = 9 -> "TxRu"
      [] bits = 10 -> "TxIdle"
      [] bits = 11 -> "Tx"
      [] bits = 12 -> "TxDisable"
      [] OTHER -> "None"

\* Radio::get_state: .ok_or(Error::UnknownState).
get_state(bits) ==
    IF variant(bits) = "None" THEN "UnknownState" ELSE variant(bits)

(***************************************************************************)
(* The peripheral.  A task written in a state that does not accept it is   *)
(* ignored.                                                                *)
(***************************************************************************)
Task == {"DISABLE", "RXEN", "TXEN", "START"}

RxSide == {RX_RU, RX_IDLE, RX}
TxSide == {TX_RU, TX_IDLE, TX}

\* The state after the peripheral takes task t in state s.
HwApply(s, t) ==
    CASE t = "DISABLE" /\ s \in RxSide -> RX_DISABLE
      [] t = "DISABLE" /\ s \in TxSide -> TX_DISABLE
      [] t = "RXEN" /\ s = DISABLED -> RX_RU
      [] t = "TXEN" /\ s = DISABLED -> TX_RU
      [] t = "START" /\ s = RX_IDLE -> RX
      [] t = "START" /\ s = TX_IDLE -> TX
      [] OTHER -> s

\* The states the peripheral leaves by itself, and where it goes: ramp-up
\* ends in idle, a packet ends in idle, disabling ends in Disabled.
Transient == {RX_RU, TX_RU, RX, TX, RX_DISABLE, TX_DISABLE}

HwSettle(s) ==
    CASE s = RX_RU -> RX_IDLE
      [] s = TX_RU -> TX_IDLE
      [] s = RX -> RX_IDLE
      [] s = TX -> TX_IDLE
      [] s = RX_DISABLE -> DISABLED
      [] s = TX_DISABLE -> DISABLED
      [] OTHER -> s

(***************************************************************************)
(* lib.rs: Address, and the u8 arithmetic of the address registers.        *)
(***************************************************************************)
Address == {"A", "B", "C", "D", "E", "F", "G", "H"}

\* `address as u8` / `address as u32`: the discriminant of #[repr(u8)] Address.
AddressRepr(a) ==
    CASE a = "A" -> 0
      [] a = "B" -> 1
      [] a = "C" -> 2
      [] a = "D" -> 3
      [] a = "E" -> 4
      [] a = "F" -> 5
      [] a = "G" -> 6
      [] a = "H" -> 7

\* Address::into_rx_address: 1 << self as u8.
into_rx_address(a) == 2 ^ AddressRepr(a)

RECURSIVE BitOrN(_, _, _)
\* x | y on n-bit values.
BitOrN(x, y, n) ==
    IF n = 0
      THEN 0
      ELSE (IF x % 2 = 1 \/ y % 2 = 1 THEN 1 ELSE 0)
           + 2 * BitOrN(x \div 2, y \div 2, n - 1)

RECURSIVE BitAndN(_, _, _)
\* x & y on n-bit values.
BitAndN(x, y, n) ==
    IF n = 0
      THEN 0
      ELSE (IF x % 2 = 1 /\ y % 2 = 1 THEN 1 ELSE 0)
           + 2 * BitAndN(x \div 2, y \div 2, n - 1)

\* The operators |, & and ! of u8, the first two tabulated once.
OrTable == [x \in 0..255 |-> [y \in 0..255 |-> BitOrN(x, y, 8)]]
AndTable == [x \in 0..255 |-> [y \in 0..255 |-> BitAndN(x, y, 8)]]
BitOr(x, y) == OrTable[x][y]
BitAnd(x, y) == AndTable[x][y]
BitNot(x) == 255 - x

\* A decoder that takes the register for a one-bit-per-address mask.
from_tx_address_one_hot(addr) ==
    IF \E a \in Address : into_rx_address(a) = addr
      THEN CHOOSE a \in Address : into_rx_address(a) = addr
      ELSE "None"

\* Address::from_tx_address: Self::from_repr(addr), an Option.
from_tx_address(addr) ==
    IF \E a \in Address : AddressRepr(a) = addr
      THEN CHOOSE a \in Address : AddressRepr(a) = addr
      ELSE "None"

\* reg_access::read_tx_address: the three-bit TXADDRESS field of the
\* register.
read_tx_address(reg) == reg % 8

RECURSIVE fold_or(_, _)
\* addresses.iter().fold(0, |acc, x| acc | *x as u8), from accumulator acc.
fold_or(addresses, acc) ==
    IF addresses = <<>>
      THEN acc
      ELSE fold_or(Tail(addresses), BitOr(acc, AddressRepr(Head(addresses))))

\* A guard that lets the empty slice through to the read and the write.
is_empty_never(addresses) == FALSE

\* addresses.is_empty()
is_empty(addresses) == addresses = <<>>

RECURSIVE enable_writes_each(_, _)
\* A loop that writes the register once per address of the slice.
enable_writes_each(reg_value, addresses) ==
    IF addresses = <<>>
      THEN <<>>
      ELSE <<BitOr(reg_value, AddressRepr(Head(addresses)))>>
           \o enable_writes_each(
                  BitOr(reg_value, AddressRepr(Head(addresses))),
                  Tail(addresses))

\* enable_rx_addresses past its guard: the values written to RXADDRESSES,
\* one write of reg_value | mask.
enable_writes(reg_value, addresses) ==
    <<BitOr(reg_value, fold_or(addresses, 0))>>

\* disable_rx_addresses past its guard: one write of reg_value & !(mask).
disable_writes(reg_value, addresses) ==
    <<BitAnd(reg_value, BitNot(fold_or(addresses, 0)))>>

\* The slices a caller passes: every sequence of at most MaxAddrs addresses.
Slices == UNION {[1..n -> Address] : n \in 0..MaxAddrs}

\* The addresses a mask enables when address a owns bit into_rx_address(a).
EnabledSet(mask) == {a \in Address : BitAnd(mask, into_rx_address(a)) # 0}

\* The members of a slice.
Members(addresses) == {addresses[i] : i \in 1..Len(addresses)}

(***************************************************************************)
(* lib.rs, packet.rs: the validated configuration values.  A conversion    *)
(* returns an Option: Some(v) or None.                                     *)
(***************************************************************************)
FREQUENCY_OFFSET == 2400
MAX_LENGTH_FIELD_BITS == 16
MAX_S0_LENGTH_BITS == 8
MAX_S1_LENGTH_BITS == 16

Some(v) == <<"Some", v>>
None == <<"None">>
Panic == <<"Panic">>

(***************************************************************************)
(* A u32 is kept as its two 16-bit halves <<high, low>>, so that the       *)
(* values near u32::MAX, where a subtraction below zero wraps to, are      *)
(* values of the model.                                                    *)
(***************************************************************************)
Half == 2 ^ 16
U32Of(n) == <<n \div Half, n % Half>>
U32Max == <<Half - 1, Half - 1>>
u32_lt(a, b) == a[1] < b[1] \/ (a[1] = b[1] /\ a[2] < b[2])
u32_le(a, b) == a = b \/ u32_lt(a, b)

\* a - b and a + b modulo 2^32.
wrapping_sub(a, b) ==
    LET borrow == IF a[2] < b[2] THEN 1 ELSE 0
    IN <<(a[1] + Half - b[1] - borrow) % Half, (a[2] + Half - b[2]) % Half>>
wrapping_add(a, b) ==
    <<(a[1] + b[1] + ((a[2] + b[2]) \div Half)) % Half, (a[2] + b[2]) % Half>>

\* A range pattern that leaves out its upper end.
frequency_in_range_exclusive(t) == u32_lt(t, U32Of(100))

\* The match arm `0..=100` of Frequency::from_mhz.
frequency_in_range(t) == u32_le(t, U32Of(100))

\* Frequency::from_mhz.  `mhz - FREQUENCY_OFFSET` is a u32 subtraction:
\* below the offset it panics in a build with overflow checks and wraps in
\* a build without them.
from_mhz(mhz, overflow_checks) ==
    IF u32_lt(mhz, U32Of(FREQUENCY_OFFSET)) /\ overflow_checks
      THEN Panic
      ELSE LET t == wrapping_sub(mhz, U32Of(FREQUENCY_OFFSET))
           IN IF frequency_in_range(t) THEN Some(t) ELSE None

\* Frequency::as_mhz, of a Frequency(f).
as_mhz(f) == wrapping_add(f, U32Of(FREQUENCY_OFFSET))

\* The three types create_field_len_struct! makes.
FieldLen == {"LengthFieldLength", "S0FieldLength", "S1FieldLength"}

\* $upper_limit of each.
upper_limit(name) ==
    CASE name = "LengthFieldLength" -> MAX_LENGTH_FIELD_BITS
      [] name = "S0FieldLength" -> MAX_S0_LENGTH_BITS
      [] name = "S1FieldLength" -> MAX_S1_LENGTH_BITS

\* A bound check that also turns the maximum itself away.
exceeds_or_equals(len, limit) == u32_le(U32Of(limit), len)

\* from_bits: match len > $upper_limit
exceeds(len, limit) == u32_lt(U32Of(limit), len)

\* $name::from_bits(len)
from_bits(name, len) ==
    IF exceeds(len, upper_limit(name)) THEN None ELSE Some(len)

\* The u32 arguments the conversions are called with: everything up to
\* Margin past the valid range on either side, and the two ends of u32.
ValidMhz == {U32Of(v) : v \in FREQUENCY_OFFSET .. (FREQUENCY_OFFSET + 100)}
MhzInputs ==
    {U32Of(v) : v \in (FREQUENCY_OFFSET - Margin)
                          .. (FREQUENCY_OFFSET + 100 + Margin)}
        \cup {U32Of(0), U32Max}
LenInputs ==
    {U32Of(n) : n \in 0 .. (MAX_LENGTH_FIELD_BITS + Margin)} \cup {U32Max}

VARIABLES
    hw,           \* the raw value of the STATE register
    pending,      \* task writes the peripheral has not acted on yet
    tag,          \* the state tag T of the live Radio<T> handle
    prevTag,      \* the tag of the handle the operation was called on
    op,           \* the operation in progress, or the last one that ran
    pc,           \* where that operation stands
    target,       \* the state the current wait polls for
    budget,       \* `cycles` of the current wait_for_state_cycles call
    left,         \* iterations of its for loop still to run
    forever,      \* the wait is wait_for_state (retries on TimedOut)
    reads,        \* STATE reads of the current wait_for_state_cycles call
    misses,       \* those of them that gave a defined state other than target
    timedOut,     \* an inner call of the current wait returned TimedOut
    lastRead,     \* what the operation's last get_state returned
    lastBits,     \* the raw STATE value of that read
    lastCmd,      \* the operation's last task write
    writes,       \* register writes the operation has made
    ret,          \* what the last finished operation returned
    rxaddresses,  \* the RXADDRESSES register
    txaddress,    \* the TXADDRESS register
    packetptr,    \* the PACKETPTR register
    bufLive,      \* the Packet local of receive_packet_with_timeout is alive
    arg,          \* the addresses passed to the last address operation
    wanted,       \* the addresses enabled since the mask was last empty
    fromEmpty,    \* the mask was empty and has only been added to since
    regReads,     \* address-register reads of the last address operation
    rxWritten,    \* the values it wrote to RXADDRESSES, in order
    handles,      \* the tags of the Radio<T> values the caller owns
    sawRx         \* the peripheral has been in Rx since the last START write

hwVars == <<hw, pending, sawRx>>
waitVars == <<target, budget, left, forever, reads, misses, timedOut>>
readVars == <<lastRead, lastBits>>
regVars == <<rxaddresses, txaddress, packetptr>>
setVars == <<arg, wanted, fromEmpty, regReads, rxWritten>>
vars ==
    <<hw, pending, tag, prevTag, op, pc, target, budget, left, forever,
      reads, misses, timedOut, lastRead, lastBits, lastCmd, writes, ret,
      rxaddresses, txaddress, packetptr, bufLive, arg, wanted, fromEmpty,
      regReads, rxWritten, handles, sawRx>>

\* The raw RADIO peripheral, in any defined state, before Radio::new.
Init ==
    /\ hw \in {StateRepr(s) : s \in State}
    /\ pending = <<>>
    /\ sawRx = FALSE
    /\ tag = "Raw"
    /\ prevTag = "Raw"
    /\ op = "none"
    /\ pc = "idle"
    /\ target = "Disabled"
    /\ budget = 0
    /\ left = 0
    /\ forever = FALSE
    /\ reads = 0
    /\ misses = 0
    /\ timedOut = FALSE
    /\ lastRead = "none"
    /\ lastBits = -1
    /\ lastCmd = "none"
    /\ writes = 0
    /\ ret = "none"
    /\ rxaddresses = 0
    /\ txaddress = 0
    /\ packetptr = "unset"
    /\ bufLive = FALSE
    /\ arg = {}
    /\ wanted = {}
    /\ fromEmpty = TRUE
    /\ regReads = 0
    /\ rxWritten = <<>>
    /\ handles = {}

(***************************************************************************)
(* reg_access: a write of 1 to a task register.  The peripheral acts on it *)
(* at a step of its own; it has acted on the oldest write by the time the  *)
(* driver has MaxPending newer ones outstanding.                           *)
(***************************************************************************)
Issue(t) ==
    /\ lastCmd' = t
    /\ IF Len(pending) < MaxPending
         THEN /\ pending' = Append(pending, t)
              /\ hw' = hw
         ELSE /\ pending' = Append(Tail(pending), t)
              /\ hw' = HwApply(hw, Head(pending))
    /\ sawRx' = (t = "START" /\ hw' = RX)

\* A loop bound computed as cycles - 1, which wraps when cycles is 0.
StartWait_wrapping(s, n, f) ==
    /\ target' = s
    /\ budget' = n
    /\ left' = IF n = 0 THEN U32_MAX ELSE n - 1
    /\ forever' = f
    /\ reads' = 0
    /\ misses' = 0
    /\ timedOut' = FALSE

\* Entering wait_for_state_cycles(s, n), or wait_for_state(s) when f.
StartWait(s, n, f) ==
    /\ target' = s
    /\ budget' = n
    /\ left' = n
    /\ forever' = f
    /\ reads' = 0
    /\ misses' = 0
    /\ timedOut' = FALSE

Waiting == pc \in {"wait1", "wait2"}

\* The operations that move the radio to another mode.
Transitions ==
    {"new", "new_zeroed", "into_receiver", "into_transmitter", "disable"}

(***************************************************************************)
(* Where an operation goes when one of its waits has returned.             *)
(***************************************************************************)
\* into_receiver built from impl_into_tx's return: the handle is tagged
\* for the other mode.
TagAfter_swapped(o) ==
    CASE o \in {"new", "new_zeroed", "disable"} -> "Disabled"
      [] o = "into_receiver" -> "Transmitter"
      [] o = "into_transmitter" -> "Receiver"

\* The tag of the handle a transition returns.
TagAfter(o) ==
    CASE o \in {"new", "new_zeroed", "disable"} -> "Disabled"
      [] o = "into_receiver" -> "Receiver"
      [] o = "into_transmitter" -> "Transmitter"

\* The operation continues (or returns) after a wait that did not fail.
WaitDone ==
    CASE op = "new_zeroed" ->
            /\ pc' = "zero"
            /\ UNCHANGED <<tag, handles, ret, bufLive>>
      [] op \in {"into_receiver", "into_transmitter"} /\ pc = "wait1" ->
            /\ pc' = "enable"
            /\ UNCHANGED <<tag, handles, ret, bufLive>>
      [] op = "wait_for_state_cycles" ->
            /\ pc' = "idle"
            /\ ret' = "Ok"
            /\ UNCHANGED <<tag, handles, bufLive>>
      [] op = "receive_packet_with_timeout" ->
            \* Ok(p): the packet is moved out of the local
            /\ pc' = "idle"
            /\ ret' = "Ok"
            /\ bufLive' = FALSE
            /\ UNCHANGED <<tag, handles>>
      [] op = "wait_for_state" ->
            /\ pc' = "idle"
            /\ ret' = "Unit"
            /\ UNCHANGED <<tag, handles, bufLive>>
      [] OTHER ->
            /\ pc' = "idle"
            /\ ret' = "Radio"
            /\ tag' = TagAfter(op)
            /\ handles' = handles \cup {TagAfter(op)}
            /\ UNCHANGED bufLive

\* wait_for_state leaves its loop whatever the inner call returned.
spins_again_never(res) == FALSE

\* wait_for_state: while wait_for_state_cycles(..) == Err(TimedOut) { .. }
spins_again(res) == res = "TimedOut"

\* A for loop that runs once more than `cycles`.
loop_continues_off_by_one(n) == n >= 0

\* wait_for_state_cycles: for _ in 0..cycles
loop_continues(n) == n > 0

\* An unknown state taken as one more state that is not the one waited
\* for.
panics_never(r) == FALSE

\* self.get_state().expect(..): an Err(UnknownState) panics.
panics(r) == r = "UnknownState"

\* A comparison that takes a state on the way for the state waited for.
state_reached_early(r, s) ==
    \/ r = s
    \/ r = "RxRu" /\ s = "RxIdle"
    \/ r = "RxDisable" /\ s = "Disabled"

\* wait_for_state_cycles: if self.get_state().expect(..) == state
state_reached(r, s) == r = s

\* receive_packet: if Err(crate::Error::TimedOut) == r { continue; }
continues(r) == r = "TimedOut"

\* receive_packet: `r?;` returns from the function when r is an Err.
propagates(r) == r # "Ok"

\* The current wait_for_state_cycles call returns res after n reads, m of
\* them misses.
InnerReturns(res, n, m) ==
    IF op = "receive_packet"
      THEN \* receive_packet_with_timeout returns res to receive_packet's
           \* loop, and its Packet local is gone: dropped with the Err, or
           \* moved into r
           /\ IF continues(res) \/ ~propagates(res)
                THEN \* `continue`, or `r?;` on an Ok: the packet is
                     \* dropped and the loop goes round
                     /\ pc' = "again"
                     /\ ret' = ret
                ELSE /\ pc' = "idle"
                     /\ ret' = res
           /\ timedOut' = (res = "TimedOut")
           /\ reads' = n
           /\ misses' = m
           /\ bufLive' = FALSE
           /\ UNCHANGED <<tag, handles, target, budget, left, forever>>
      ELSE IF forever /\ spins_again(res)
      THEN \* core::hint::spin_loop(); the next inner call starts
           /\ left' = U32_MAX
           /\ reads' = 0
           /\ misses' = 0
           /\ timedOut' = TRUE
           /\ UNCHANGED <<pc, tag, handles, ret, target, budget, forever,
                          bufLive>>
      ELSE IF forever \/ res = "Ok"
        THEN /\ WaitDone
             /\ reads' = n
             /\ misses' = m
             /\ UNCHANGED <<target, budget, left, forever, timedOut>>
        ELSE \* the ? in receive_packet_with_timeout, or the caller's own call
             /\ pc' = "idle"
             /\ ret' = "TimedOut"
             /\ timedOut' = TRUE
             /\ reads' = n
             /\ misses' = m
             /\ bufLive' = FALSE
             /\ UNCHANGED <<tag, handles, target, budget, left, forever>>

(***************************************************************************)
(* wait_for_state_cycles and wait_for_state (lib.rs:517-536).              *)
(***************************************************************************)
\* One iteration of the for loop: a STATE read and the comparison.
wait_for_state_cycles_poll ==
    /\ Waiting
    /\ loop_continues(left)
    /\ lastBits' = hw
    /\ LET r == get_state(hw)
           m == IF r \in State /\ r # target THEN misses + 1 ELSE misses
       IN
         /\ lastRead' = r
         /\ IF panics(r)
              THEN \* .expect("The radio is in an invalid state")
                   /\ pc' = "panic"
                   /\ ret' = "Panic"
                   /\ reads' = reads + 1
                   /\ UNCHANGED <<tag, handles, target, budget, left, forever,
                                  misses, timedOut, bufLive>>
              ELSE IF state_reached(r, target)
                THEN InnerReturns("Ok", reads + 1, m)
                ELSE /\ left' = left - 1
                     /\ reads' = reads + 1
                     /\ misses' = m
                     /\ UNCHANGED <<pc, tag, handles, ret, target, budget,
                                    forever, timedOut, bufLive>>
    /\ UNCHANGED <<hwVars, prevTag, op, lastCmd, writes, regVars, setVars>>

\* The for loop has run `cycles` times: Err(Error::TimedOut).
wait_for_state_cycles_exhausted ==
    /\ Waiting
    /\ ~loop_continues(left)
    /\ InnerReturns("TimedOut", reads, misses)
    /\ UNCHANGED <<hwVars, prevTag, op, readVars, lastCmd, writes, regVars,
                   setVars>>

Live == tag \in {"Disabled", "Receiver", "Transmitter"}

\* A caller's own wait_for_state_cycles(state, cycles), on any handle.
wait_for_state_cycles(s, n) ==
    /\ pc = "idle"
    /\ Live
    /\ op' = "wait_for_state_cycles"
    /\ prevTag' = tag
    /\ pc' = "wait1"
    /\ StartWait(s, n, FALSE)
    /\ lastRead' = "none"
    /\ lastBits' = -1
    /\ lastCmd' = "none"
    /\ writes' = 0
    /\ ret' = "none"
    /\ UNCHANGED <<hwVars, tag, handles, regVars, bufLive, setVars>>

\* A caller's own wait_for_state(state), on any handle.
wait_for_state(s) ==
    /\ pc = "idle"
    /\ Live
    /\ op' = "wait_for_state"
    /\ prevTag' = tag
    /\ pc' = "wait1"
    /\ StartWait(s, U32_MAX, TRUE)
    /\ lastRead' = "none"
    /\ lastBits' = -1
    /\ lastCmd' = "none"
    /\ writes' = 0
    /\ ret' = "none"
    /\ UNCHANGED <<hwVars, tag, handles, regVars, bufLive, setVars>>

\* A caller's own get_state(), on any handle: one read of STATE.
call_get_state ==
    /\ pc = "idle"
    /\ Live
    /\ op' = "get_state"
    /\ prevTag' = tag
    /\ ret' = get_state(hw)
    /\ lastRead' = get_state(hw)
    /\ lastBits' = hw
    /\ lastCmd' = "none"
    /\ writes' = 0
    /\ UNCHANGED <<hwVars, tag, handles, pc, waitVars, regVars, bufLive,
                   setVars>>

(***************************************************************************)
(* The transitions (lib.rs:73-160, 229-231, 361-362, 399-400).             *)
(***************************************************************************)
\* A transition that borrows the handle it is called on (&self).
consumes_never(o) == FALSE

\* Every transition takes `self` (Radio::new: the RADIO) by value, and
\* Radio<T> is neither Clone nor Copy: the value the caller had is moved
\* into the call.
consumes(o) == o \in Transitions

\* An operation that starts with reg_access::disable and
\* wait_for_state(State::DISABLED).
DisableAndWait(o) ==
    /\ pc = "idle"
    /\ op' = o
    /\ prevTag' = tag
    /\ pc' = "wait1"
    /\ Issue("DISABLE")
    /\ writes' = 1
    /\ StartWait("Disabled", U32_MAX, TRUE)
    /\ lastRead' = "none"
    /\ lastBits' = -1
    /\ ret' = "none"
    /\ handles' = IF consumes(o) THEN handles \ {tag} ELSE handles
    /\ UNCHANGED <<tag, regVars, bufLive, setVars>>

\* Radio::new and the call of it that opens Radio::new_zeroed.
new(zeroed) ==
    /\ tag = "Raw"
    /\ DisableAndWait(IF zeroed THEN "new_zeroed" ELSE "new")

\* Radio::new_zeroed after Self::new: the two address registers are zeroed.
new_zeroed_writes ==
    /\ pc = "zero"
    /\ txaddress' = 0
    /\ rxaddresses' = 0
    /\ wanted' = {}
    /\ fromEmpty' = TRUE
    /\ writes' = writes + 2
    /\ pc' = "idle"
    /\ ret' = "Radio"
    /\ tag' = TagAfter(op)
    /\ handles' = handles \cup {TagAfter(op)}
    /\ UNCHANGED <<hwVars, prevTag, op, waitVars, readVars, lastCmd,
                   packetptr, bufLive, arg, regReads, rxWritten>>

\* impl_into_rx, on Radio<Disabled> and Radio<Enabled<Transmitter>>.
into_receiver ==
    /\ tag \in {"Disabled", "Transmitter"}
    /\ DisableAndWait("into_receiver")

\* impl_into_rx: reg_access::enable_rx, wait_for_state(State::RX_IDLE).
into_receiver_enable ==
    /\ pc = "enable"
    /\ op = "into_receiver"
    /\ pc' = "wait2"
    /\ Issue("RXEN")
    /\ writes' = writes + 1
    /\ StartWait("RxIdle", U32_MAX, TRUE)
    /\ lastRead' = "none"
    /\ lastBits' = -1
    /\ UNCHANGED <<tag, handles, prevTag, op, ret, regVars, bufLive, setVars>>

\* impl_into_tx, on Radio<Disabled> and Radio<Enabled<Receiver>>.
into_transmitter ==
    /\ tag \in {"Disabled", "Receiver"}
    /\ DisableAndWait("into_transmitter")

\* impl_into_tx: reg_access::enable_tx, wait_for_state(State::TX_IDLE).
into_transmitter_enable ==
    /\ pc = "enable"
    /\ op = "into_transmitter"
    /\ pc' = "wait2"
    /\ Issue("TXEN")
    /\ writes' = writes + 1
    /\ StartWait("TxIdle", U32_MAX, TRUE)
    /\ lastRead' = "none"
    /\ lastBits' = -1
    /\ UNCHANGED <<tag, handles, prevTag, op, ret, regVars, bufLive, setVars>>

\* impl_disable, on Radio<Enabled<T>>.
disable ==
    /\ tag \in {"Receiver", "Transmitter"}
    /\ DisableAndWait("disable")

\* The body of receive_packet_with_timeout(cycles): the packet local, its
\* address into PACKETPTR, START, the bounded wait for RX_IDLE.
StartReception(n) ==
    /\ pc' = "wait1"
    /\ packetptr' = "p"
    /\ bufLive' = TRUE
    /\ Issue("START")
    /\ writes' = 2
    /\ StartWait("RxIdle", n, FALSE)
    /\ lastRead' = "none"
    /\ lastBits' = -1
    /\ UNCHANGED <<tag, handles, rxaddresses, txaddress, setVars>>

\* Radio<Enabled<Receiver>>::receive_packet_with_timeout(cycles)
receive_packet_with_timeout(n) ==
    /\ pc = "idle"
    /\ tag = "Receiver"
    /\ op' = "receive_packet_with_timeout"
    /\ prevTag' = tag
    /\ ret' = "none"
    /\ StartReception(n)

\* Radio<Enabled<Receiver>>::receive_packet: the first turn of its loop.
receive_packet ==
    /\ pc = "idle"
    /\ tag = "Receiver"
    /\ op' = "receive_packet"
    /\ prevTag' = tag
    /\ ret' = "none"
    /\ StartReception(U32_MAX)

\* receive_packet: the next turn of its loop, a fresh
\* receive_packet_with_timeout(u32::MAX).
receive_packet_again ==
    /\ pc = "again"
    /\ StartReception(U32_MAX)
    /\ UNCHANGED <<op, prevTag, ret>>

(***************************************************************************)
(* The address registers (lib.rs:377-468).  Each getter and setter is one  *)
(* call that runs to its end; none touches a task register.                *)
(***************************************************************************)
\* What every such call leaves behind besides its register.
Setter(o, self, args) ==
    /\ pc = "idle"
    /\ tag = self
    /\ op' = o
    /\ prevTag' = tag
    /\ arg' = args
    /\ lastRead' = "none"
    /\ lastBits' = -1
    /\ lastCmd' = "none"
    /\ UNCHANGED <<hwVars, tag, handles, pc, waitVars, packetptr, bufLive>>

\* Radio<Enabled<Transmitter>>::set_tx_address
set_tx_address(a) ==
    /\ Setter("set_tx_address", "Transmitter", {a})
    /\ txaddress' = AddressRepr(a)
    /\ writes' = 1
    /\ regReads' = 0
    /\ rxWritten' = <<>>
    /\ ret' = "Self"
    /\ UNCHANGED <<rxaddresses, wanted, fromEmpty>>

\* Radio<Enabled<Transmitter>>::disable_all_tx_addresses
disable_all_tx_addresses ==
    /\ Setter("disable_all_tx_addresses", "Transmitter", {})
    /\ txaddress' = 0
    /\ writes' = 1
    /\ regReads' = 0
    /\ rxWritten' = <<>>
    /\ ret' = "Self"
    /\ UNCHANGED <<rxaddresses, wanted, fromEmpty>>

\* Radio<Enabled<Transmitter>>::tx_address: the register read back and
\* decoded, with .expect("invalid tx address; ..") on the decoding.
tx_address ==
    /\ pc = "idle"
    /\ tag = "Transmitter"
    /\ op' = "tx_address"
    /\ prevTag' = tag
    /\ arg' = {}
    /\ lastRead' = "none"
    /\ lastBits' = -1
    /\ lastCmd' = "none"
    /\ writes' = 0
    /\ regReads' = 1
    /\ rxWritten' = <<>>
    /\ LET a == from_tx_address(read_tx_address(txaddress))
       IN IF a = "None"
            THEN pc' = "panic" /\ ret' = "Panic"
            ELSE pc' = "idle" /\ ret' = a
    /\ UNCHANGED <<hwVars, tag, handles, waitVars, regVars, bufLive, wanted,
                   fromEmpty>>

\* Radio<Enabled<Receiver>>::enable_rx_address
enable_rx_address(a) ==
    /\ Setter("enable_rx_address", "Receiver", {a})
    /\ rxaddresses' = BitOr(rxaddresses, AddressRepr(a))
    /\ writes' = 1
    /\ regReads' = 1
    /\ rxWritten' = <<rxaddresses'>>
    /\ ret' = "Self"
    /\ wanted' = IF fromEmpty THEN wanted \cup {a} ELSE {}
    /\ UNCHANGED <<txaddress, fromEmpty>>

\* Radio<Enabled<Receiver>>::disable_rx_address
disable_rx_address(a) ==
    /\ Setter("disable_rx_address", "Receiver", {a})
    /\ rxaddresses' = BitAnd(rxaddresses, BitNot(AddressRepr(a)))
    /\ writes' = 1
    /\ regReads' = 1
    /\ rxWritten' = <<rxaddresses'>>
    /\ ret' = "Self"
    /\ wanted' = {}
    /\ fromEmpty' = FALSE
    /\ UNCHANGED txaddress

\* Radio<Enabled<Receiver>>::enable_rx_addresses
enable_rx_addresses(addresses) ==
    /\ Setter("enable_rx_addresses", "Receiver", Members(addresses))
    /\ IF is_empty(addresses)
         THEN /\ writes' = 0
              /\ regReads' = 0
              /\ rxWritten' = <<>>
              /\ UNCHANGED rxaddresses
         ELSE /\ rxWritten' = enable_writes(rxaddresses, addresses)
              /\ writes' = Len(rxWritten')
              /\ regReads' = 1
              /\ rxaddresses' = rxWritten'[Len(rxWritten')]
    /\ ret' = "Self"
    /\ wanted' = IF fromEmpty THEN wanted \cup Members(addresses) ELSE {}
    /\ UNCHANGED <<txaddress, fromEmpty>>

\* Radio<Enabled<Receiver>>::disable_rx_addresses
disable_rx_addresses(addresses) ==
    /\ Setter("disable_rx_addresses", "Receiver", Members(addresses))
    /\ IF is_empty(addresses)
         THEN /\ writes' = 0
              /\ regReads' = 0
              /\ rxWritten' = <<>>
              /\ UNCHANGED <<rxaddresses, wanted, fromEmpty>>
         ELSE /\ rxWritten' = disable_writes(rxaddresses, addresses)
              /\ writes' = Len(rxWritten')
              /\ regReads' = 1
              /\ rxaddresses' = rxWritten'[Len(rxWritten')]
              /\ wanted' = {}
              /\ fromEmpty' = FALSE
    /\ ret' = "Self"
    /\ UNCHANGED txaddress

\* Radio<Enabled<Receiver>>::disable_all_rx_addresses
disable_all_rx_addresses ==
    /\ Setter("disable_all_rx_addresses", "Receiver", {})
    /\ rxaddresses' = 0
    /\ writes' = 1
    /\ regReads' = 0
    /\ rxWritten' = <<0>>
    /\ ret' = "Self"
    /\ wanted' = {}
    /\ fromEmpty' = TRUE
    /\ UNCHANGED txaddress

\* Radio<Enabled<Receiver>>::rx_addresses: the mask as it is in the register.
rx_addresses ==
    /\ Setter("rx_addresses", "Receiver", {})
    /\ writes' = 0
    /\ regReads' = 1
    /\ rxWritten' = <<>>
    /\ ret' = rxaddresses
    /\ UNCHANGED <<rxaddresses, txaddress, wanted, fromEmpty>>

(***************************************************************************)
(* The peripheral's own steps.                                             *)
(***************************************************************************)
\* The peripheral acts on the oldest task write.
HwTake ==
    /\ pending # <<>>
    /\ hw' = HwApply(hw, Head(pending))
    /\ pending' = Tail(pending)
    /\ sawRx' = (sawRx \/ (lastCmd = "START" /\ hw' = RX))
    /\ UNCHANGED <<tag, handles, prevTag, op, pc, waitVars, readVars, lastCmd,
                   writes, ret, regVars, bufLive, setVars>>

\* Ramp-up, a packet or disabling comes to its end.
HwProgress ==
    /\ hw \in Transient
    /\ hw' = HwSettle(hw)
    /\ sawRx' = (sawRx \/ (lastCmd = "START" /\ hw' = RX))
    /\ UNCHANGED <<pending, tag, handles, prevTag, op, pc, waitVars, readVars,
                   lastCmd, writes, ret, regVars, bufLive, setVars>>

\* A peripheral that obeys no state diagram: STATE reads as any four bits.
HwAny ==
    /\ \E b \in StateBits : hw' = b
    /\ sawRx' = (sawRx \/ (lastCmd = "START" /\ hw' = RX))
    /\ UNCHANGED <<pending, tag, handles, prevTag, op, pc, waitVars, readVars,
                   lastCmd, writes, ret, regVars, bufLive, setVars>>

(***************************************************************************)
(* The specifications.                                                     *)
(***************************************************************************)
\* The transitions, receive_packet_with_timeout and the unbounded wait.
Driver ==
    \/ \E z \in BOOLEAN : new(z)
    \/ new_zeroed_writes
    \/ into_receiver
    \/ into_receiver_enable
    \/ into_transmitter
    \/ into_transmitter_enable
    \/ disable
    \/ \E n \in 0..MaxCycles : receive_packet_with_timeout(n)
    \/ receive_packet
    \/ receive_packet_again
    \/ \E s \in State : wait_for_state(s)
    \/ wait_for_state_cycles_poll
    \/ wait_for_state_cycles_exhausted

Next ==
    \/ Driver
    \/ \E s \in State, n \in 0..MaxCycles : wait_for_state_cycles(s, n)
    \/ call_get_state
    \/ \E a \in Address : set_tx_address(a)
    \/ disable_all_tx_addresses
    \/ tx_address
    \/ disable_all_rx_addresses
    \/ HwTake
    \/ HwProgress

\* The driver on a peripheral that follows its state diagram.
Spec == Init /\ [][Next]_vars

NextAny ==
    \/ Driver
    \/ HwTake
    \/ HwProgress
    \/ HwAny

\* The transitions on a peripheral whose STATE register may read as
\* anything at any time.
SpecAny == Init /\ [][NextAny]_vars

\* A handle at rest: the state a transition returns in.
AtRest(t, s) ==
    /\ hw = s
    /\ pending = <<>>
    /\ sawRx = FALSE
    /\ tag = t
    /\ prevTag = "Disabled"
    /\ op = "none"
    /\ pc = "idle"
    /\ target = "Disabled"
    /\ budget = 0
    /\ left = 0
    /\ forever = FALSE
    /\ reads = 0
    /\ misses = 0
    /\ timedOut = FALSE
    /\ lastRead = "none"
    /\ lastBits = -1
    /\ lastCmd = "none"
    /\ writes = 0
    /\ ret = "none"
    /\ txaddress = 0
    /\ packetptr = "unset"
    /\ bufLive = FALSE
    /\ arg = {}
    /\ wanted = {}
    /\ regReads = 0
    /\ rxWritten = <<>>
    /\ handles = IF t = "Raw" THEN {} ELSE {t}

InitWait ==
    /\ \/ AtRest("Disabled", DISABLED)
       \/ AtRest("Receiver", RX_IDLE)
       \/ AtRest("Transmitter", TX_IDLE)
    /\ rxaddresses = 0
    /\ fromEmpty = TRUE

NextWait ==
    \/ \E s \in State, n \in 0..MaxCycles : wait_for_state_cycles(s, n)
    \/ call_get_state
    \/ wait_for_state_cycles_poll
    \/ wait_for_state_cycles_exhausted
    \/ HwAny

\* The bounded wait and get_state, called on a handle at rest, on a
\* peripheral whose STATE register may read as anything at any time.
SpecWait == InitWait /\ [][NextWait]_vars

\* The RXADDRESSES masks a Receiver handle starts over: Radio::new leaves
\* the register as it finds it.
InitMasks == {0, 5, 130, 255}

InitAddr ==
    /\ AtRest("Receiver", RX_IDLE)
    /\ rxaddresses \in InitMasks
    /\ fromEmpty = (rxaddresses = 0)

NextAddr ==
    \/ \E a \in Address : enable_rx_address(a)
    \/ \E a \in Address : disable_rx_address(a)
    \/ \E addresses \in Slices : enable_rx_addresses(addresses)
    \/ \E addresses \in Slices : disable_rx_addresses(addresses)
    \/ disable_all_rx_addresses
    \/ rx_addresses

\* The address-set operations of a Receiver handle.
SpecAddr == InitAddr /\ [][NextAddr]_vars

\* A call of Frequency::from_mhz, an associated function: no handle.
call_from_mhz(mhz, overflow_checks) ==
    /\ pc = "idle"
    /\ op' = "from_mhz"
    /\ arg' = mhz
    /\ ret' = from_mhz(mhz, overflow_checks)
    /\ pc' = IF ret' = Panic THEN "panic" ELSE "idle"
    /\ UNCHANGED <<hwVars, tag, handles, prevTag, waitVars, readVars, lastCmd,
                   writes, regVars, bufLive, wanted, fromEmpty, regReads,
                   rxWritten>>

\* A call of $name::from_bits.
call_from_bits(name, len) ==
    /\ pc = "idle"
    /\ op' = name
    /\ arg' = len
    /\ ret' = from_bits(name, len)
    /\ UNCHANGED <<hwVars, tag, handles, prevTag, pc, waitVars, readVars,
                   lastCmd, writes, regVars, bufLive, wanted, fromEmpty,
                   regReads, rxWritten>>

InitConv ==
    /\ AtRest("Raw", DISABLED)
    /\ rxaddresses = 0
    /\ fromEmpty = TRUE

NextConv ==
    \/ \E mhz \in MhzInputs, c \in BOOLEAN : call_from_mhz(mhz, c)
    \/ \E name \in FieldLen, len \in LenInputs : call_from_bits(name, len)

\* The conversions into validated values, called with any argument.
SpecConv == InitConv /\ [][NextConv]_vars

\* The steps of the transitions.
TransitionSteps ==
    \/ \E z \in BOOLEAN : new(z)
    \/ new_zeroed_writes
    \/ into_receiver
    \/ into_receiver_enable
    \/ into_transmitter
    \/ into_transmitter_enable
    \/ disable
    \/ wait_for_state_cycles_poll
    \/ wait_for_state_cycles_exhausted

\* The steps a transition that has been called takes by itself: the
\* processor goes on executing it.
Running ==
    \/ new_zeroed_writes
    \/ into_receiver_enable
    \/ into_transmitter_enable
    \/ wait_for_state_cycles_poll
    \/ wait_for_state_cycles_exhausted

NextFair ==
    \/ TransitionSteps
    \/ HwTake
    \/ HwProgress

\* The transitions on a peripheral that follows its state diagram and does
\* not stall: it acts on every task written, and ramp-up and disabling
\* come to their end; a state it has settled in it keeps until the next
\* task.  The processor does not stall either.
SpecFair ==
    /\ Init
    /\ [][NextFair]_vars
    /\ WF_vars(Running)
    /\ WF_vars(HwTake)
    /\ WF_vars(HwProgress)

(***************************************************************************)
(* The claims.                                                             *)
(***************************************************************************)
Defined == {StateRepr(s) : s \in State}

\* C1: into_receiver called on a Disabled handle ends, when it ends, with
\* a Receiver handle whose last STATE read was RxIdle, read after RXEN was
\* written (or with TimedOut); it never returns after its last read gave
\* any other state, whatever the STATE register does.
C1_IntoReceiverEndsInRxIdle ==
    (op = "into_receiver" /\ prevTag = "Disabled" /\ pc = "idle") =>
        /\ ret \in {"Radio", "TimedOut"}
        /\ ret = "Radio" =>
              /\ tag = "Receiver"
              /\ lastCmd = "RXEN"
              /\ lastRead = "RxIdle"

\* into_receiver has returned a Receiver handle to the holder of a Disabled
\* one, after an inner poll ran out and the wait started over.
C1_Witness ==
    /\ op = "into_receiver"
    /\ prevTag = "Disabled"
    /\ pc = "idle"
    /\ tag = "Receiver"
    /\ lastRead = "RxIdle"
    /\ timedOut

\* C2: whenever no operation is in progress the handle's tag agrees with
\* the peripheral: Disabled with the Disabled state, Receiver with RxIdle
\* or Rx, Transmitter with TxIdle or Tx.
C2_TagAgreesWithHardware ==
    pc = "idle" =>
        /\ tag = "Disabled" => hw = DISABLED
        /\ tag = "Receiver" => hw \in {RX_IDLE, RX}
        /\ tag = "Transmitter" => hw \in {TX_IDLE, TX}

\* receive_packet_with_timeout has returned TimedOut and the peripheral is
\* still receiving.
C2_Witness ==
    /\ pc = "idle"
    /\ tag = "Receiver"
    /\ op = "receive_packet_with_timeout"
    /\ ret = "TimedOut"
    /\ hw = RX

\* C3: in a switch between the modes (into_transmitter on a Receiver,
\* into_receiver on a Transmitter) the enable task of the new mode is
\* written only when the one write before it was DISABLE and the last STATE
\* read since then returned Disabled.
C3_EnableOnlyAfterDisabledRead ==
    [][(/\ prevTag \in {"Receiver", "Transmitter"}
        /\ lastCmd' \in {"RXEN", "TXEN"}
        /\ lastCmd' # lastCmd)
       => /\ lastCmd = "DISABLE"
          /\ writes = 1
          /\ lastRead = "Disabled"
          /\ lastCmd' = IF op = "into_receiver" THEN "RXEN" ELSE "TXEN"]_vars

\* into_transmitter on a Receiver handle has written TXEN.
C3_Witness ==
    /\ op = "into_transmitter"
    /\ prevTag = "Receiver"
    /\ pc = "wait2"
    /\ lastCmd = "TXEN"

\* C4 as claimed: a transition whose wait has used up a cycle budget has
\* stopped polling.
C4_ReturnsOnExhaustedBudget ==
    (op \in Transitions /\ timedOut) => ~Waiting

\* C4, amended: a transition takes no cycle budget.  When a poll of u32::MAX
\* reads runs out the wait starts another, and the wait is left only on a
\* STATE read equal to the target (or by the panic on an undefined value).
C4_TransitionsPollUntilTarget ==
    [][(op \in Transitions /\ Waiting)
       => /\ left = 0 => Waiting'
          /\ ~Waiting' => (pc' = "panic" \/ lastRead' = target)]_vars

\* disable is polling again after a poll ran out, and has read RxDisable.
C4_Witness ==
    /\ op = "disable"
    /\ Waiting
    /\ timedOut
    /\ reads > 0
    /\ lastRead = "RxDisable"

\* C5: wait_for_state_cycles(state, n) makes at most n STATE reads; it goes
\* on polling only while every read gave a defined state other than the
\* target; Ok is returned at the first read equal to the target, TimedOut
\* after n reads that all gave defined states other than the target.
C5_BoundedWait ==
    op = "wait_for_state_cycles" =>
        /\ reads <= budget
        /\ Waiting => misses = reads
        /\ pc = "idle" => ret \in {"Ok", "TimedOut"}
        /\ (pc = "idle" /\ ret = "Ok") =>
              (lastRead = target /\ misses = reads - 1)
        /\ (pc = "idle" /\ ret = "TimedOut") =>
              (reads = budget /\ misses = budget)

\* The target was read at the last read the budget allows.
C5_Witness ==
    /\ op = "wait_for_state_cycles"
    /\ pc = "idle"
    /\ ret = "Ok"
    /\ budget = MaxCycles
    /\ reads = MaxCycles
    /\ misses = MaxCycles - 1

\* C6: wait_for_state_cycles with a budget of 0 makes at most one STATE
\* read, and ends in TimedOut unless a read gave the target.
C6_ZeroBudget ==
    (op = "wait_for_state_cycles" /\ budget = 0) =>
        /\ reads <= 1
        /\ pc \in {"idle", "panic"} => (ret = "TimedOut" \/ lastRead = target)

\* A wait with budget 0 has returned TimedOut while STATE is not the target.
C6_Witness ==
    /\ op = "wait_for_state_cycles"
    /\ budget = 0
    /\ pc = "idle"
    /\ ret = "TimedOut"
    /\ reads = 0
    /\ get_state(hw) # target

\* C7: wait_for_state never hands TimedOut to its caller, and when it
\* returns its last STATE read equals the target.
C7_UnboundedWaitNeverTimesOut ==
    /\ op \in Transitions \cup {"wait_for_state"} => ret # "TimedOut"
    /\ (op = "wait_for_state" /\ pc = "idle") =>
          (ret = "Unit" /\ lastRead = target)

\* wait_for_state has returned after an inner poll ran out.
C7_Witness ==
    /\ op = "wait_for_state"
    /\ pc = "idle"
    /\ ret = "Unit"
    /\ timedOut
    /\ lastRead = target

\* C8: get_state returns UnknownState exactly when the STATE register holds
\* none of the nine defined values, and otherwise the state with that
\* value; the call writes no register.
C8_GetStateDecodes ==
    [][(pc = "idle" /\ op' = "get_state" /\ hw' = hw)
       => /\ ret' = "UnknownState" <=> hw \notin Defined
          /\ ret' # "UnknownState" => (ret' \in State /\ StateRepr(ret') = hw)
          /\ writes' = 0
          /\ UNCHANGED <<pending, regVars>>]_vars

\* get_state has returned UnknownState for a value no state has.
C8_Witness ==
    /\ op = "get_state"
    /\ ret = "UnknownState"
    /\ lastBits = 5

\* C9 as claimed: address a owns bit into_rx_address(a) of the mask, so
\* from an empty mask the addresses enabled are exactly the addresses read
\* back.
C9_OneBitPerAddress ==
    fromEmpty =>
        /\ EnabledSet(rxaddresses) = wanted
        /\ op = "rx_addresses" => EnabledSet(ret) = wanted

\* C10 as claimed: every enable adds its addresses to the enabled set and
\* every disable removes its addresses from it, whatever the mask was, so
\* that a sequence of them leaves the original set with the enabled members
\* added and the disabled ones removed in order (and an enable followed by
\* a disable of an address that was not enabled leaves the original set).
C10_SetAlgebra ==
    [][/\ op' \in {"enable_rx_address", "enable_rx_addresses"} =>
             EnabledSet(rxaddresses') = EnabledSet(rxaddresses) \cup arg'
       /\ op' \in {"disable_rx_address", "disable_rx_addresses"} =>
             EnabledSet(rxaddresses') = EnabledSet(rxaddresses) \ arg']_vars

\* The address operations that take a slice.
BatchOps == {"enable_rx_addresses", "disable_rx_addresses"}

\* The operations that change the set of enabled receive addresses.
RxSetOps ==
    {"enable_rx_address", "disable_rx_address", "enable_rx_addresses",
     "disable_rx_addresses", "disable_all_rx_addresses"}

\* C11: enable_rx_addresses and disable_rx_addresses called with an empty
\* slice read no register and write no register, and leave the rx-address
\* mask and every other register as they were.
C11_EmptySliceIsNoOp ==
    [][(op' \in BatchOps /\ arg' = {})
         => /\ writes' = 0
            /\ regReads' = 0
            /\ rxWritten' = <<>>
            /\ UNCHANGED <<regVars, hwVars>>]_vars

C11_Witness ==
    /\ op = "disable_rx_addresses"
    /\ arg = {}
    /\ writes = 0
    /\ regReads = 0
    /\ rxaddresses = 130

\* C12: every address-set operation with a non-empty argument writes the
\* rx-address register exactly once, however many addresses it is given,
\* and the one value written is the final mask: no mask with only part of
\* a batch applied is ever written.
C12_ExactlyOneWrite ==
    (op \in RxSetOps /\ (op \in BatchOps => arg # {}))
        => /\ writes = 1
           /\ Len(rxWritten) = 1
           /\ rxWritten[1] = rxaddresses

C12_Witness ==
    /\ op = "enable_rx_addresses"
    /\ arg = {"B", "C"}
    /\ writes = 1
    /\ rxWritten = <<3>>
    /\ rxaddresses = 3

\* C13: for every mhz from 2400 to 2500, Frequency::from_mhz(mhz) is Some
\* frequency, its stored offset is from 0 to 100, and as_mhz of it is mhz
\* again.
C13_FrequencyRoundTrip ==
    (op = "from_mhz" /\ arg \in ValidMhz)
        => /\ ret[1] = "Some"
           /\ ret[2] \in {U32Of(t) : t \in 0..100}
           /\ as_mhz(ret[2]) = arg

C13_Witness ==
    op = "from_mhz" /\ arg = U32Of(2500) /\ ret = Some(U32Of(100))

\* C14 as claimed: for every u32 outside 2400..2500, those below 2400
\* included, Frequency::from_mhz completes, without aborting, and fails:
\* it produces no Frequency.
C14_OutOfRangeFails ==
    (op = "from_mhz" /\ arg \notin ValidMhz) => (pc = "idle" /\ ret = None)

\* C15 as claimed: from_bits accepts every length up to and including the
\* maximum of its type and rejects every greater one with the error
\* ValueOutOfBounds.
C15_RejectsWithValueOutOfBounds ==
    op \in FieldLen
        => ret = IF u32_le(arg, U32Of(upper_limit(op)))
                   THEN Some(arg)
                   ELSE <<"Err", "ValueOutOfBounds">>

\* C15: from_bits accepts every length up to and including the maximum of
\* its type (16, 8, 16), and turns every greater one away by returning
\* None.
C15_FieldLengthBounds ==
    op \in FieldLen
        => ret = IF u32_le(arg, U32Of(upper_limit(op)))
                   THEN Some(arg)
                   ELSE None

C15_Witness ==
    /\ op = "S0FieldLength"
    /\ arg = U32Of(MAX_S0_LENGTH_BITS + 1)
    /\ ret = None

\* C16 as claimed: the peripheral holds the packet buffer only during one
\* operation.  When receive_packet_with_timeout has returned, with Ok or
\* with TimedOut, the peripheral is not receiving and has no START left to
\* act on; and whenever the peripheral of a Receiver handle is receiving,
\* the buffer whose address is in the packet-pointer register is alive at
\* that address.
C16_BufferOutlivesReception ==
    /\ (op = "receive_packet_with_timeout" /\ pc = "idle")
           => (hw # RX /\ \A i \in 1..Len(pending) : pending[i] # "START")
    /\ (tag = "Receiver" /\ hw = RX) => (packetptr = "p" /\ bufLive)

\* C17 as claimed: receive_packet goes round its loop again only when
\* receive_packet_with_timeout returned TimedOut, and when a poll of its
\* wait reads RxIdle after the start command it returns Ok with the packet.
C17_ReturnsOkOnReception ==
    [][/\ (op = "receive_packet" /\ pc = "again" /\ pc' = "wait1")
             => timedOut
       /\ (op = "receive_packet" /\ Waiting /\ reads' = reads + 1
              /\ lastRead' = "RxIdle")
             => (pc' = "idle" /\ ret' = "Ok")]_vars

\* C18: on a Transmitter handle tx_address() returns an address and does
\* not abort, whatever set_tx_address and disable_all_tx_addresses calls
\* came before, and called right after set_tx_address(a) it returns a.
C18_TxAddressRoundTrip ==
    [][op' = "tx_address"
         => /\ pc' = "idle"
            /\ ret' \in Address
            /\ op = "set_tx_address" => arg = {ret'}]_vars

C18_Witness ==
    /\ op = "tx_address"
    /\ pc = "idle"
    /\ ret = "H"
    /\ txaddress = AddressRepr("H")

\* C19: the caller never owns more than one handle, the handle it owns has
\* the tag of the radio's mode, and while a transition runs it owns none:
\* the handle the transition was called on is gone, and the one new handle
\* exists only when the transition has returned.
C19_SingleHandle ==
    /\ Cardinality(handles) <= 1
    /\ (pc = "idle" /\ tag # "Raw") => handles = {tag}
    /\ (op \in Transitions /\ pc # "idle") => handles = {}

C19_Witness ==
    /\ op = "into_transmitter"
    /\ prevTag = "Receiver"
    /\ pc = "idle"
    /\ handles = {"Transmitter"}

\* C20 as claimed: receive_packet_with_timeout and receive_packet write
\* the START task only while the peripheral is in RxIdle, never while a
\* reception started earlier is still in progress, a call repeated after
\* TimedOut included.
C20_StartOnlyInRxIdle ==
    [][(/\ op' \in {"receive_packet_with_timeout", "receive_packet"}
        /\ pc \in {"idle", "again"}
        /\ pc' = "wait1"
        /\ lastCmd' = "START")
         => hw = RX_IDLE]_vars

\* C21 as claimed: when receive_packet_with_timeout returns Ok, a reception
\* has completed: between the START that call wrote and its return the
\* peripheral was in Rx and came back to RxIdle.  It does not return Ok on
\* a first poll that finds the peripheral still in RxIdle, the START not
\* yet acted on.
C21_OkMeansReceived ==
    (op = "receive_packet_with_timeout" /\ pc = "idle" /\ ret = "Ok")
        => (sawRx /\ lastRead = "RxIdle")

\* The task a mode switch writes to enable the mode it switches to.
EnableTask(o) == IF o = "into_receiver" THEN "RXEN" ELSE "TXEN"

\* The state it then waits for.
IdleOf(o) == IF o = "into_receiver" THEN "RxIdle" ELSE "TxIdle"

\* C22 as claimed: into_receiver called on a Disabled handle writes the
\* receive-enable task and no other task (into_transmitter: the
\* transmit-enable task and no other), and then waits for RxIdle (TxIdle).
C22_OnlyEnableIsIssued ==
    (op \in {"into_receiver", "into_transmitter"} /\ prevTag = "Disabled")
        => /\ lastCmd = EnableTask(op)
           /\ pc = "idle" => lastRead = IdleOf(op)

\* C22: into_receiver called on a Disabled handle writes two tasks and no
\* more: DISABLE first, after which it waits for a read of Disabled, then
\* the receive-enable task, after which it waits for a read of RxIdle and
\* returns (into_transmitter: DISABLE, then transmit-enable, TxIdle).
C22_DisableThenEnable ==
    (op \in {"into_receiver", "into_transmitter"} /\ prevTag = "Disabled")
        => /\ writes \in {1, 2}
           /\ writes = 1 => /\ lastCmd = "DISABLE"
                            /\ pc \in {"wait1", "enable", "panic"}
           /\ pc = "wait1" => target = "Disabled"
           /\ pc = "enable" => lastRead = "Disabled"
           /\ writes = 2 => /\ lastCmd = EnableTask(op)
                            /\ pc \in {"wait2", "idle", "panic"}
           /\ pc = "wait2" => target = IdleOf(op)
           /\ pc = "idle" => (writes = 2 /\ lastRead = IdleOf(op))

C22_Witness ==
    /\ op = "into_transmitter"
    /\ prevTag = "Disabled"
    /\ pc = "idle"
    /\ writes = 2
    /\ lastCmd = "TXEN"
    /\ lastRead = "TxIdle"

\* C23: a STATE read of a wait (of wait_for_state_cycles or
\* wait_for_state, of a transition or of a receive operation) that gives
\* none of the nine defined states makes the wait panic at that read: the
\* operation returns neither Ok nor TimedOut nor UnknownState nor a handle,
\* and reads nothing further.
C23_UnknownStatePanics ==
    [][/\ (Waiting /\ reads' = reads + 1 /\ hw \notin Defined)
             => /\ pc' = "panic"
                /\ ret' = "Panic"
                /\ lastRead' = "UnknownState"
                /\ UNCHANGED <<tag, handles>>
       /\ pc = "panic"
             => UNCHANGED <<pc, op, ret, reads, readVars, tag, handles>>]_vars

C23_Witness ==
    /\ op = "into_receiver"
    /\ pc = "panic"
    /\ target = "RxIdle"
    /\ lastBits = 5
    /\ ret = "Panic"
    /\ handles = {}

\* C24: on a peripheral that acts on every command and then settles in the
\* command's target state, every transition (new, new_zeroed,
\* into_receiver, into_transmitter, disable) that has been called comes to
\* its return; and a transition returns only after a read of the state it
\* last waited for, so that it does not return when the peripheral never
\* gets there.
C24_TransitionsTerminate ==
    /\ [](op \in Transitions /\ pc = "idle" => lastRead = target)
    /\ [][(op \in Transitions /\ Waiting /\ ~Waiting')
             => lastRead' = target]_vars
    /\ (op \in Transitions /\ pc # "idle") ~> (pc = "idle")

C24_Witness ==
    /\ op = "into_transmitter"
    /\ prevTag = "Receiver"
    /\ pc = "idle"
    /\ timedOut
    /\ target = "TxIdle"
    /\ lastRead = "TxIdle"

====
